---------------------------- MODULE Spec2Model ----------------------------
(***************************************************************************)
(* A model of the Gantt chart maker: one run of the Streamlit script        *)
(* (streamlit_app.py) and the chart builder createGantt (gantt.py) it       *)
(* calls.  A run starts with the value of the file_uploader widget, walks   *)
(* through the script top to bottom and ends either at the end of the       *)
(* script (pc = "done") or with an exception that leaves the script         *)
(* (pc = "crashed").                                                        *)
(*                                                                          *)
(* Abstractions.  A workbook is its first sheet: the set of header names    *)
(* and the sequence of rows.  A date cell is either a calendar date, held   *)
(* as a whole day number, or text that pd.to_datetime cannot parse.  A      *)
(* CompletionFrac cell is the rational num/den, and so is every bar length, *)
(* so that CompletionFrac * Duration is exact.  An empty cell is Null (NaN  *)
(* in pandas).  The x axis ticks (gantt.py 58-60) are not modelled.         *)
(***************************************************************************)
EXTENDS Integers, Sequences, FiniteSets

\* ------------------------------------------------------------------ bounds
MaxRows == 3        \* rows of a table whose label columns vary
MaxDateRows == 2    \* rows of a table whose date columns vary
MaxDay == 1         \* day numbers 0..MaxDay
FracDen == 2        \* CompletionFrac ranges over k/FracDen, k in 0..FracDen

\* ------------------------------------------------------------------ values
Null == "NaN"
StageVals == {"Design", "Build"}
ColorVals == {"#ff0000", "#00ff00"}
LegendVals == {"1 Design", "2 Build"}
TitleVals == {"Demo", "Plan"}

Columns ==
    {"Task", "Stage", "StartDate", "EndDate", "CompletionFrac", "Title",
     "StageColor", "LegendOrder"}

DateCell(d) == [text |-> "date", day |-> d]
BadDateCell == [text |-> "not a date", day |-> 0]
Frac(k) == [num |-> k, den |-> FracDen]

None == [kind |-> "None"]
Unbound == [kind |-> "unbound"]
NoException == [file |-> "", line |-> 0, type |-> ""]
Raise(f, l, t) == [file |-> f, line |-> l, type |-> t]

\* ------------------------------------------------------------------ inputs
SeqsUpTo(S, n) == UNION {[1..k -> S] : k \in 0..n}

Workbook(cols, rows) ==
    [kind |-> "xlsx", readable |-> TRUE, columns |-> cols, rows |-> rows]

\* Rows whose Stage, StageColor and LegendOrder cells vary.
LabelRows ==
    [Task : {"A"}, Stage : StageVals \cup {Null}, StartDate : {DateCell(0)},
     EndDate : {DateCell(1)}, CompletionFrac : {Frac(FracDen)}, Title : {"Demo"},
     StageColor : ColorVals \cup {Null}, LegendOrder : LegendVals \cup {Null}]

\* Rows whose StartDate, EndDate and CompletionFrac cells vary.
DateRows ==
    [Task : {"A"}, Stage : {"Design"},
     StartDate : {DateCell(d) : d \in 0..MaxDay},
     EndDate : {DateCell(d) : d \in 0..MaxDay},
     CompletionFrac : {Frac(k) : k \in 0..FracDen}, Title : {"Demo"},
     StageColor : {"#ff0000"}, LegendOrder : {"1 Design"}]

\* Rows whose Title cell varies.
TitleRows ==
    [Task : {"A"}, Stage : {"Design"}, StartDate : {DateCell(0)},
     EndDate : {DateCell(1)}, CompletionFrac : {Frac(FracDen)},
     Title : TitleVals \cup {Null},
     StageColor : {"#ff0000"}, LegendOrder : {"1 Design"}]

\* Rows with a date cell that is no date.
BadDateRows ==
    [Task : {"A"}, Stage : {"Design"}, StartDate : {DateCell(0), BadDateCell},
     EndDate : {DateCell(1), BadDateCell}, CompletionFrac : {Frac(FracDen)},
     Title : {"Demo"}, StageColor : {"#ff0000"}, LegendOrder : {"1 Design"}]

GoodRow ==
    [Task |-> "A", Stage |-> "Design", StartDate |-> DateCell(0),
     EndDate |-> DateCell(1), CompletionFrac |-> Frac(FracDen), Title |-> "Demo",
     StageColor |-> "#ff0000", LegendOrder |-> "1 Design"]

\* The workbooks with all eight columns and up to n rows out of rowset.
Workbooks(rowset, n) == {Workbook(Columns, r) : r \in SeqsUpTo(rowset, n)}

\* A workbook with one of the eight columns missing.
MissingColumnFiles == {Workbook(Columns \ {c}, <<GoodRow>>) : c \in Columns}

\* An upload that is no workbook at all.
CorruptFile ==
    [kind |-> "xlsx", readable |-> FALSE, columns |-> {}, rows |-> <<>>]

\* ------------------------------------------------------------------ pandas
\* Series.dropna(): the non-null cells, in row order.
RECURSIVE dropna(_)
dropna(s) ==
    IF s = <<>> THEN <<>>
    ELSE IF Head(s) = Null THEN dropna(Tail(s))
    ELSE <<Head(s)>> \o dropna(Tail(s))

InSeq(x, s) == \E i \in 1..Len(s) : s[i] = x

\* Series.unique(): the distinct cells, in order of first appearance.
RECURSIVE uniqueFrom(_, _)
uniqueFrom(seen, s) ==
    IF s = <<>> THEN seen
    ELSE IF InSeq(Head(s), seen) THEN uniqueFrom(seen, Tail(s))
    ELSE uniqueFrom(Append(seen, Head(s)), Tail(s))

unique(s) == uniqueFrom(<<>>, s)

\* data[c]: the column c of the table.
Column(rows, c) == [i \in 1..Len(rows) |-> rows[i][c]]

Min2(a, b) == IF a <= b THEN a ELSE b
Max2(a, b) == IF a >= b THEN a ELSE b

\* Series.min() / Series.max() of a non-empty column of day numbers.
RECURSIVE SeriesMin(_)
SeriesMin(s) == IF Len(s) = 1 THEN s[1] ELSE Min2(s[1], SeriesMin(Tail(s)))

RECURSIVE SeriesMax(_)
SeriesMax(s) == IF Len(s) = 1 THEN s[1] ELSE Max2(s[1], SeriesMax(Tail(s)))

\* dict(zip(keys, values)) for distinct keys: an insertion-ordered mapping,
\* held as the sequence of its items; zip stops at the shorter argument.
dict_zip(keys, values) ==
    [i \in 1..Min2(Len(keys), Len(values)) |-> [key |-> keys[i], value |-> values[i]]]

HasKey(d, k) == \E i \in 1..Len(d) : d[i].key = k
Lookup(d, k) == d[CHOOSE i \in 1..Len(d) : d[i].key = k].value

\* pd.to_datetime on a cell that holds a date.
to_datetime(cell) == cell.day

Parseable(rows, c) == \A i \in 1..Len(rows) : rows[i][c].text = "date"


\* ------------------------------------------------------------------ derived columns
\* A slip: the first row's StartDate taken for the least one.
MinStartDate_firstRow(rows) == rows[1].StartDate

\* data["StartDate"].min(): day-zero of the chart.
MinStartDate(rows) == SeriesMin(Column(rows, "StartDate"))

\* (data["StartDate"] - data["StartDate"].min()).dt.days
DaysToStart(rows, i) == rows[i].StartDate - MinStartDate(rows)

\* (data["EndDate"] - data["StartDate"].min()).dt.days
DaysToEnd(rows, i) == rows[i].EndDate - MinStartDate(rows)

\* (data["EndDate"] - data["StartDate"]).dt.days
Duration(rows, i) == rows[i].EndDate - rows[i].StartDate

\* A slip: the fraction taken of DaysToEnd instead of Duration.
CompletionDays_ofDaysToEnd(rows, i) ==
    [num |-> rows[i].CompletionFrac.num * DaysToEnd(rows, i),
     den |-> rows[i].CompletionFrac.den]

\* data["CompletionFrac"] * data["Duration"]
CompletionDays(rows, i) ==
    [num |-> rows[i].CompletionFrac.num * Duration(rows, i),
     den |-> rows[i].CompletionFrac.den]

\* The table with StartDate and EndDate converted by pd.to_datetime.
WithDates(rows) ==
    [i \in 1..Len(rows) |->
        [rows[i] EXCEPT !.StartDate = to_datetime(rows[i].StartDate),
                        !.EndDate = to_datetime(rows[i].EndDate)]]

\* The table with the four derived columns added.
WithDerived(rows) ==
    [i \in 1..Len(rows) |->
        [Task |-> rows[i].Task, Stage |-> rows[i].Stage,
         StartDate |-> rows[i].StartDate, EndDate |-> rows[i].EndDate,
         CompletionFrac |-> rows[i].CompletionFrac, Title |-> rows[i].Title,
         StageColor |-> rows[i].StageColor, LegendOrder |-> rows[i].LegendOrder,
         DaysToStart |-> DaysToStart(rows, i), DaysToEnd |-> DaysToEnd(rows, i),
         Duration |-> Duration(rows, i),
         CompletionDays |-> CompletionDays(rows, i)]]

\* ------------------------------------------------------------------ mappings
\* dict(zip(data["Stage"].dropna().unique(), data["StageColor"].dropna().unique()))
StageColorDict(rows) ==
    dict_zip(unique(dropna(Column(rows, "Stage"))),
             unique(dropna(Column(rows, "StageColor"))))

\* data["LegendOrder"].dropna().unique()
LegendOrderList(rows) == unique(dropna(Column(rows, "LegendOrder")))

\* dict(zip(data["LegendOrder"].dropna().unique(), data["StageColor"].dropna().unique()))
LegendOrderDict(rows) ==
    dict_zip(unique(dropna(Column(rows, "LegendOrder"))),
             unique(dropna(Column(rows, "StageColor"))))

\* data["Title"].dropna().unique()
Titles(rows) == unique(dropna(Column(rows, "Title")))

\* ------------------------------------------------------------------ traces
Whole(n) == [num |-> n, den |-> 1]

\* go.Bar(x=[x], y=[y], base=base, orientation="h", marker=..., showlegend=False)
Bar(x, y, base, color, line, opacity) ==
    [type |-> "bar", x |-> x, y |-> y, base |-> base, color |-> color,
     line |-> line, opacity |-> opacity, name |-> Null, showlegend |-> FALSE]

\* go.Scatter(x=[None], y=[None], mode="markers", marker=..., name=..., showlegend=True)
Scatter(name, color) ==
    [type |-> "scatter", x |-> Null, y |-> Null, base |-> Null, color |-> color,
     line |-> Null, opacity |-> Null, name |-> name, showlegend |-> TRUE]

\* The main task bar of a row (gantt.py 72-84).
MainBar(row, colors) ==
    Bar(Whole(row.Duration), row.Task, row.DaysToStart + 1,
        Lookup(colors, row.Stage), Lookup(colors, row.Stage), "1")

\* The completion overlay of a row (gantt.py 87-96).
OverlayBar(row, colors) ==
    Bar(row.CompletionDays, row.Task, row.DaysToStart + 1,
        Lookup(colors, row.Stage), Null, "0.5")

\* The legend entries, one per item of the legend order dictionary.
LegendEntries(d) == [k \in 1..Len(d) |-> Scatter(d[k].key, d[k].value)]

EmptyFigure == [data |-> <<>>, layout |-> [title |-> Null, height |-> 0, width |-> 0]]

\* ------------------------------------------------------------------ state
VARIABLES
    uploaded_file,      \* the value of the file_uploader widget
    pc,                 \* the position of the run
    screen,             \* what the run has put on the page
    img_bytes,          \* the script's global img_bytes
    exception,          \* the exception that left the script, if any
    data,               \* createGantt: the data frame
    stage_color_dict,   \* createGantt: Stage -> colour
    legend_order,       \* createGantt: the legend order list
    legend_order_dict,  \* createGantt: LegendOrder -> colour
    title,              \* createGantt: the chart title
    chart_height,       \* createGantt: pixel height
    chart_width,        \* createGantt: pixel width
    index,              \* createGantt: the row the bar loop is at
    GanttChart          \* createGantt: the figure

vars ==
    <<uploaded_file, pc, screen, img_bytes, exception, data, stage_color_dict,
      legend_order, legend_order_dict, title, chart_height, chart_width, index,
      GanttChart>>

locals ==
    <<data, stage_color_dict, legend_order, legend_order_dict, title,
      chart_height, chart_width, index, GanttChart>>

InitWith(files) ==
    /\ uploaded_file \in files
    /\ pc = "script"
    /\ screen = <<>>
    /\ img_bytes = Unbound
    /\ exception = NoException
    /\ data = <<>>
    /\ stage_color_dict = <<>>
    /\ legend_order = <<>>
    /\ legend_order_dict = <<>>
    /\ title = Null
    /\ chart_height = 0
    /\ chart_width = 0
    /\ index = 0
    /\ GanttChart = EmptyFigure

\* The widget holds no file, or any of the uploads.
Init ==
    InitWith({None} \cup Workbooks(LabelRows, MaxRows)
                 \cup Workbooks(DateRows, MaxDateRows)
                 \cup Workbooks(TitleRows, MaxDateRows)
                 \cup Workbooks(BadDateRows, MaxDateRows)
                 \cup MissingColumnFiles \cup {CorruptFile})

\* The widget holds no file, or a workbook whose date columns vary.
InitDates == InitWith({None} \cup Workbooks(DateRows, MaxDateRows))

\* An exception raised inside createGantt: nothing catches it, neither in
\* createGantt nor around the call at streamlit_app.py 27, so it leaves the script.
Fail(line, type) ==
    /\ pc' = "crashed"
    /\ exception' = Raise("gantt.py", line, type)

\* ------------------------------------------------------------------ streamlit_app.py
\* The widgets the script draws before it looks at the upload (lines 7-21).
PageHead ==
    <<"title", "markdown", "file_uploader", "height", "width", "title_input",
      "title_font_size", "axis_label_font_size">>

\* Lines 7-29: draw the page, then call createGantt on the upload or, with no
\* upload, write the prompt; img_bytes is assigned only by the call's return.
RunScript ==
    /\ pc = "script"
    /\ screen' =
          IF uploaded_file # None THEN PageHead \o <<"spinner">>
          ELSE PageHead \o <<"Please upload an xlsx file">>
    /\ pc' = IF uploaded_file # None THEN "read_excel" ELSE "display"
    /\ UNCHANGED <<uploaded_file, img_bytes, exception, locals>>

\* ------------------------------------------------------------------ gantt.py
\* Line 20: pd.read_excel.
ReadExcel ==
    /\ pc = "read_excel"
    /\ IF ~uploaded_file.readable
       THEN /\ Fail(20, "BadZipFile")
            /\ UNCHANGED data
       ELSE /\ data' = uploaded_file.rows
            /\ pc' = "to_datetime"
            /\ UNCHANGED exception
    /\ UNCHANGED <<uploaded_file, screen, img_bytes, stage_color_dict, legend_order,
                   legend_order_dict, title, chart_height, chart_width, index,
                   GanttChart>>

\* Lines 23-24: the two date columns become datetimes.
ToDatetime ==
    /\ pc = "to_datetime"
    /\ IF "StartDate" \notin uploaded_file.columns
       THEN Fail(23, "KeyError") /\ UNCHANGED data
       ELSE IF ~Parseable(data, "StartDate")
       THEN Fail(23, "DateParseError") /\ UNCHANGED data
       ELSE IF "EndDate" \notin uploaded_file.columns
       THEN Fail(24, "KeyError") /\ UNCHANGED data
       ELSE IF ~Parseable(data, "EndDate")
       THEN Fail(24, "DateParseError") /\ UNCHANGED data
       ELSE /\ data' = WithDates(data)
            /\ pc' = "derive"
            /\ UNCHANGED exception
    /\ UNCHANGED <<uploaded_file, screen, img_bytes, stage_color_dict, legend_order,
                   legend_order_dict, title, chart_height, chart_width, index,
                   GanttChart>>

\* Lines 27-36: DaysToStart, DaysToEnd, Duration, CompletionDays.
DeriveColumns ==
    /\ pc = "derive"
    /\ IF "CompletionFrac" \notin uploaded_file.columns
       THEN Fail(36, "KeyError") /\ UNCHANGED data
       ELSE /\ data' = WithDerived(data)
            /\ pc' = "mappings"
            /\ UNCHANGED exception
    /\ UNCHANGED <<uploaded_file, screen, img_bytes, stage_color_dict, legend_order,
                   legend_order_dict, title, chart_height, chart_width, index,
                   GanttChart>>

\* Lines 39-52: the two colour dictionaries, the legend order list, the title.
BuildMappings ==
    /\ pc = "mappings"
    /\ IF "Stage" \notin uploaded_file.columns
       THEN /\ Fail(40, "KeyError")
            /\ UNCHANGED <<stage_color_dict, legend_order, legend_order_dict, title>>
       ELSE IF "StageColor" \notin uploaded_file.columns
       THEN /\ Fail(40, "KeyError")
            /\ UNCHANGED <<stage_color_dict, legend_order, legend_order_dict, title>>
       ELSE IF "LegendOrder" \notin uploaded_file.columns
       THEN /\ Fail(44, "KeyError")
            /\ stage_color_dict' = StageColorDict(data)
            /\ UNCHANGED <<legend_order, legend_order_dict, title>>
       ELSE IF "Title" \notin uploaded_file.columns
       THEN /\ Fail(52, "KeyError")
            /\ stage_color_dict' = StageColorDict(data)
            /\ legend_order' = LegendOrderList(data)
            /\ legend_order_dict' = LegendOrderDict(data)
            /\ UNCHANGED title
       ELSE IF Titles(data) = <<>>
       THEN /\ Fail(52, "IndexError")
            /\ stage_color_dict' = StageColorDict(data)
            /\ legend_order' = LegendOrderList(data)
            /\ legend_order_dict' = LegendOrderDict(data)
            /\ UNCHANGED title
       ELSE /\ stage_color_dict' = StageColorDict(data)
            /\ legend_order' = LegendOrderList(data)
            /\ legend_order_dict' = LegendOrderDict(data)
            /\ title' = Titles(data)[1]
            /\ pc' = "figure"
            /\ UNCHANGED exception
    /\ UNCHANGED <<uploaded_file, screen, img_bytes, data, chart_height, chart_width,
                   index, GanttChart>>

\* Lines 55-67: the empty figure and the chart's pixel dimensions.  The table
\* has a row here: the title was taken from one.
CreateFigure ==
    /\ pc = "figure"
    /\ IF "Task" \notin uploaded_file.columns
       THEN /\ Fail(66, "KeyError")
            /\ UNCHANGED <<chart_height, chart_width, index>>
       ELSE /\ chart_height' = 50 + 20 * Len(data)
            /\ chart_width' = 1000 + 50 * SeriesMax(Column(data, "DaysToEnd"))
            /\ index' = 1
            /\ pc' = "bars"
            /\ UNCHANGED exception
    /\ GanttChart' = EmptyFigure
    /\ UNCHANGED <<uploaded_file, screen, img_bytes, data, stage_color_dict,
                   legend_order, legend_order_dict, title>>

\* Lines 70-96: one iteration of the loop over the rows: the main bar and the
\* completion overlay of row index.
AddTaskBars ==
    /\ pc = "bars"
    /\ IF ~HasKey(stage_color_dict, data[index].Stage)
       THEN /\ Fail(79, "KeyError")
            /\ UNCHANGED <<index, GanttChart>>
       ELSE /\ GanttChart' =
                  [GanttChart EXCEPT !.data =
                      @ \o <<MainBar(data[index], stage_color_dict),
                             OverlayBar(data[index], stage_color_dict)>>]
            /\ index' = index + 1
            /\ pc' = IF index = Len(data) THEN "legend" ELSE "bars"
            /\ UNCHANGED exception
    /\ UNCHANGED <<uploaded_file, screen, img_bytes, data, stage_color_dict,
                   legend_order, legend_order_dict, title, chart_height, chart_width>>

\* Lines 99-109: one legend-only marker per item of legend_order_dict.
AddLegendEntries ==
    /\ pc = "legend"
    /\ GanttChart' = [GanttChart EXCEPT !.data = @ \o LegendEntries(legend_order_dict)]
    /\ pc' = "write_image"
    /\ UNCHANGED <<uploaded_file, screen, img_bytes, exception, data, stage_color_dict,
                   legend_order, legend_order_dict, title, chart_height, chart_width,
                   index>>

\* The layout set by lines 112-146.
LaidOut(fig) ==
    [fig EXCEPT !.layout =
        [title |-> title, height |-> chart_height, width |-> chart_width]]

\* The BytesIO that pio.write_image filled with the PNG of a figure.
BytesIO(fig) == [kind |-> "BytesIO", nbytes |-> 1 + Len(fig.data), png |-> fig]

\* What createGantt returns (line 153): the pair (img_bytes, GanttChart).
ReturnValue(fig) == [kind |-> "tuple", first |-> BytesIO(fig), second |-> fig]

\* Lines 112-153 and streamlit_app.py 27: the layout, the rasterization (which
\* the renderer may refuse), and the return, whose value the script binds to
\* img_bytes.
WriteImage ==
    /\ pc = "write_image"
    /\ GanttChart' = LaidOut(GanttChart)
    /\ \E rendered \in BOOLEAN :
          IF rendered
          THEN /\ img_bytes' = ReturnValue(LaidOut(GanttChart))
               /\ pc' = "display"
               /\ UNCHANGED exception
          ELSE /\ Fail(150, "ValueError")
               /\ UNCHANGED img_bytes
    /\ UNCHANGED <<uploaded_file, screen, data, stage_color_dict, legend_order,
                   legend_order_dict, title, chart_height, chart_width, index>>

\* ------------------------------------------------------------------ streamlit_app.py
\* Lines 32-43: img_bytes.getbuffer().nbytes decides between the image and
\* the error text, then the download button is drawn.  The name img_bytes is
\* not bound when no file was uploaded, and a tuple has no getbuffer.
Display ==
    /\ pc = "display"
    /\ CASE img_bytes.kind = "unbound" ->
              /\ pc' = "crashed"
              /\ exception' = Raise("streamlit_app.py", 32, "NameError")
              /\ UNCHANGED screen
         [] img_bytes.kind = "tuple" ->
              /\ pc' = "crashed"
              /\ exception' = Raise("streamlit_app.py", 32, "AttributeError")
              /\ UNCHANGED screen
         [] img_bytes.kind = "BytesIO" ->
              /\ pc' = "done"
              /\ screen' =
                    screen
                    \o (IF img_bytes.nbytes > 0
                        THEN <<[widget |-> "image", value |-> img_bytes]>>
                        ELSE <<[widget |-> "error",
                                value |-> "Failed to generate Gantt chart image"]>>)
                    \o <<[widget |-> "download_button", value |-> img_bytes]>>
              /\ UNCHANGED exception
    /\ UNCHANGED <<uploaded_file, img_bytes, locals>>

Next ==
    \/ RunScript
    \/ ReadExcel
    \/ ToDatetime
    \/ DeriveColumns
    \/ BuildMappings
    \/ CreateFigure
    \/ AddTaskBars
    \/ AddLegendEntries
    \/ WriteImage
    \/ Display

Spec == Init /\ [][Next]_vars

SpecDates == InitDates /\ [][Next]_vars

\* ------------------------------------------------------------------ properties
Ended == pc \in {"done", "crashed"}

\* createGantt has returned to the script.
Built == img_bytes # Unbound

\* The data frame carries the derived columns.
HasDerived == data # <<>> /\ "DaysToStart" \in DOMAIN data[1]

\* The rows whose two bars are in the figure.
Drawn == {r \in 1..Len(data) : 2 * r <= Len(GanttChart.data) /\ HasDerived}
MainOf(r) == GanttChart.data[2 * r - 1]
OverlayOf(r) == GanttChart.data[2 * r]

IsBar(t) == t.type = "bar"
IsLegendOnly(t) == t.type = "scatter"

RatLeq(a, b) == a.num * b.den <= b.num * a.den
Abs(n) == IF n < 0 THEN -n ELSE n
AbsRat(a) == [num |-> Abs(a.num), den |-> a.den]

\* The first row of the table that holds v in column c.
FirstRow(rows, c, v) ==
    CHOOSE i \in 1..Len(rows) :
        rows[i][c] = v /\ \A j \in 1..(i - 1) : rows[j][c] # v

CellSet(rows, c) == {rows[i][c] : i \in 1..Len(rows)} \ {Null}

\* The upload is a workbook with all eight columns, dates in both date
\* columns and a title.
WellFormed ==
    /\ uploaded_file # None
    /\ uploaded_file.readable
    /\ uploaded_file.columns = Columns
    /\ Parseable(uploaded_file.rows, "StartDate")
    /\ Parseable(uploaded_file.rows, "EndDate")
    /\ CellSet(uploaded_file.rows, "Title") # {}

\* C1: whenever createGantt has built a figure, the figure holds exactly
\* 2 x (row count) bar traces and exactly one legend-only trace per distinct
\* non-null LegendOrder value of the table.
C1_TraceCounts ==
    Built =>
        /\ Len(SelectSeq(img_bytes.second.data, IsBar)) = 2 * Len(uploaded_file.rows)
        /\ Len(SelectSeq(img_bytes.second.data, IsLegendOnly))
              = Cardinality(CellSet(uploaded_file.rows, "LegendOrder"))

\* C2: both bars of every drawn row carry the StageColor of the first row of
\* the table that has the row's Stage (where that first row has a StageColor).
C2_FirstStageColorWins ==
    \A r \in Drawn :
        LET first == data[FirstRow(data, "Stage", data[r].Stage)].StageColor
        IN  first # Null =>
               /\ MainOf(r).color = first
               /\ MainOf(r).line = first
               /\ OverlayOf(r).color = first

\* A Stage of some row that has no StageColor on any of its rows.
UncolouredStages ==
    {s \in CellSet(uploaded_file.rows, "Stage") :
        \A i \in 1..Len(uploaded_file.rows) :
            uploaded_file.rows[i].Stage = s => uploaded_file.rows[i].StageColor = Null}

\* C3: when an otherwise well-formed table has a Stage without any StageColor,
\* createGantt never returns, and the run ends with a KeyError raised in
\* createGantt.
C3_UncolouredStageFails ==
    (WellFormed /\ UncolouredStages # {}) =>
        /\ ~Built
        /\ Ended => (exception.file = "gantt.py" /\ exception.type = "KeyError")

\* C4 as stated: for every drawn row (CompletionFrac is in [0,1] in every
\* table here), the overlay bar is at most as long as the main bar, rows whose
\* EndDate precedes StartDate included.
C4_OverlayWithinMainAnyRow ==
    \A r \in Drawn : RatLeq(OverlayOf(r).x, MainOf(r).x)

\* C4 amended: for every drawn row the overlay bar is at most as long as the
\* main bar when EndDate does not precede StartDate, and in every drawn row the
\* magnitude of the overlay is at most the magnitude of the main bar.
C4_OverlayWithinMain ==
    \A r \in Drawn :
        /\ data[r].EndDate >= data[r].StartDate
              => RatLeq(OverlayOf(r).x, MainOf(r).x)
        /\ RatLeq(AbsRat(OverlayOf(r).x), AbsRat(MainOf(r).x))

\* Two rows are drawn, one that ends after it starts with a CompletionFrac
\* strictly between 0 and 1, one that ends before it starts.
C4_Witness ==
    /\ \E r \in Drawn :
          /\ data[r].EndDate > data[r].StartDate
          /\ 0 < data[r].CompletionFrac.num
          /\ data[r].CompletionFrac.num < data[r].CompletionFrac.den
    /\ \E r \in Drawn : data[r].EndDate < data[r].StartDate

\* C5: once the derived columns exist, DaysToStart is 0 in every row whose
\* StartDate is the least StartDate of the table and is never negative.
C5_DaysToStart ==
    HasDerived =>
        \A i \in 1..Len(data) :
            /\ data[i].DaysToStart >= 0
            /\ (\A j \in 1..Len(data) : data[i].StartDate <= data[j].StartDate)
                  => data[i].DaysToStart = 0

\* The derived columns exist for a table whose least StartDate is not in the
\* first row and whose rows start on different days.
C5_Witness ==
    /\ HasDerived
    /\ \E i \in 2..Len(data) : data[i].StartDate < data[1].StartDate
    /\ data[1].DaysToStart > 0

\* C6: a run with no file uploaded ends at the end of the script, with the
\* prompt on the page and neither an image nor a download button.
C6_NoFileRunEnds ==
    (uploaded_file = None /\ Ended) =>
        /\ pc = "done"
        /\ exception = NoException
        /\ \E k \in 1..Len(screen) : screen[k] = "Please upload an xlsx file"

\* C7: a failure of createGantt never leaves the script as an unhandled
\* exception.
C7_BuildFailureCaught ==
    Ended => exception.file # "gantt.py"

\* C8: when createGantt has returned, the run ends at the end of the script,
\* and the image shown and the download offered are the image bytes of the
\* returned pair.
C8_BuiltRunShowsImage ==
    (Built /\ Ended) =>
        /\ pc = "done"
        /\ exception = NoException
        /\ \E k \in 1..Len(screen) :
              screen[k] = [widget |-> "image", value |-> BytesIO(GanttChart)]
        /\ \E k \in 1..Len(screen) :
              screen[k] = [widget |-> "download_button", value |-> BytesIO(GanttChart)]

\* C9: both bars of every drawn row have the row's DaysToStart as their base.
C9_BaseIsDaysToStart ==
    \A r \in Drawn :
        /\ MainOf(r).base = data[r].DaysToStart
        /\ OverlayOf(r).base = data[r].DaysToStart

\* C10: when the legend loop is through, the legend-only traces are, in order,
\* one per distinct LegendOrder value in order of first appearance, each with
\* the StageColor of the first row that has that LegendOrder (where that row
\* has a StageColor).
C10_LegendInOrderOfAppearance ==
    pc = "write_image" =>
        LET markers == SelectSeq(GanttChart.data, IsLegendOnly)
            labels == unique(dropna(Column(data, "LegendOrder")))
        IN  /\ Len(markers) = Len(labels)
            /\ \A k \in 1..Len(labels) :
                  LET first == data[FirstRow(data, "LegendOrder", labels[k])].StageColor
                  IN  /\ markers[k].name = labels[k]
                      /\ first # Null => markers[k].color = first

=============================================================================
